---- MODULE Spec2Model ----
(***************************************************************************)
(* Model of report_generator.py: load_data, generate_summary (the manual   *)
(* grouping and the pandas grouping), print_and_save and main.             *)
(*                                                                         *)
(* Amounts are bounded integers: a price p stands for the float p.0, and   *)
(* products and sums of such small integers are exact in binary floating   *)
(* point, so the float accumulation of the program is integer arithmetic   *)
(* here.  The input file is assumed to have its header row; csv holds the  *)
(* data rows below it.                                                     *)
(***************************************************************************)
EXTENDS Integers, Sequences, FiniteSets, TLC

VARIABLES
    pd,          \* TRUE iff "import pandas" succeeded at module load
    inputExists, \* os.path.exists(INPUT)
    csv,         \* the data rows of the input file, as text cells
    dirExists,   \* os.path.exists(OUTDIR)
    outfile,     \* the report file OUTFILE: [exists, content]
    stdout,      \* the chunks written to standard output, in order
    stderr,      \* the messages written to the error stream, in order
    pc,          \* position of main: start, loaded, summarised, exited
    df,          \* <<>> until load_data has returned, then <<its value>>
    summary,     \* <<>> until generate_summary has returned, then <<its value>>
    raised,      \* type of the exception that ended the run, "none" if none
    exits        \* the exit statuses the process terminated with, in order

vars == <<pd, inputExists, csv, dirExists, outfile, stdout, stderr, pc, df,
          summary, raised, exits>>

----------------------------------------------------------------------------
(* Bounds of the model *)

\* The largest number of data rows of an input file.
MaxRows == 2

(* Program constants *)

INPUT == "sales_data.csv"
OUTDIR == "report"
OUTFILE == "report/sales_report_<timestamp>.txt"

----------------------------------------------------------------------------
(* The input file *)

\* A numeric cell of the file: text that int()/float() accepts (num, with its
\* value) or text that they reject.
Num(v) == [num |-> TRUE, val |-> v]
Txt == [num |-> FALSE, val |-> 0]

Artisans == {"A", "B", ""}
Products == {"X", "Y"}
Units == {-1, 2}
Prices == {-1, 1}

GoodRows == { [artisan |-> a, product |-> p, units_sold |-> Num(u), unit_price |-> Num(q)] :
                a \in Artisans, p \in Products, u \in Units, q \in Prices }

BadRows == { [artisan |-> "A", product |-> "X", units_sold |-> Txt, unit_price |-> Num(1)],
             [artisan |-> "A", product |-> "X", units_sold |-> Num(1), unit_price |-> Txt] }

CsvRows == GoodRows \cup BadRows

CsvFiles == UNION { [1..n -> CsvRows] : n \in 0..MaxRows }

----------------------------------------------------------------------------
(* load_data *)

\* The missing value pandas.read_csv puts in place of an empty cell.
NaN == "<NaN>"

\* int(r['units_sold']) and float(r['unit_price']) both accept the row's text.
Parses(r) == r.units_sold.num /\ r.unit_price.num

\* The row after the two coercions of the fallback loader.
Coerce(r) ==
    [artisan |-> r.artisan, product |-> r.product,
     units_sold |-> r.units_sold.val, unit_price |-> r.unit_price.val]

\* The fallback loader's loop over csv.DictReader: rows are coerced and
\* appended in file order; the first cell that int() or float() rejects
\* raises ValueError out of load_data and the rows collected so far are lost.
RECURSIVE ParseRows(_, _)
ParseRows(todo, rows) ==
    IF todo = <<>> THEN [raised |-> "none", value |-> <<[rows |-> rows, numeric |-> TRUE]>>]
    ELSE IF ~Parses(Head(todo)) THEN [raised |-> "ValueError", value |-> <<>>]
    ELSE ParseRows(Tail(todo), Append(rows, Coerce(Head(todo))))

\* read_csv's default treatment of an empty cell.
NaOf(k) == IF k = "" THEN NaN ELSE k

\* pandas.read_csv: every row is kept; an empty artisan or product cell reads
\* as NaN; a column holding text that is no number is read as a column of
\* strings (dtype object) and nothing is raised.  numeric is FALSE iff one of
\* the two numeric columns was read as strings.
ReadCsv(file) ==
    [raised |-> "none",
     value |-> << [rows |-> [i \in 1..Len(file) |->
                               [artisan |-> NaOf(file[i].artisan),
                                product |-> NaOf(file[i].product),
                                units_sold |-> file[i].units_sold.val,
                                unit_price |-> file[i].unit_price.val]],
                   numeric |-> \A i \in 1..Len(file) : Parses(file[i])] >>]

\* load_data with an input file without data rows treated like a missing one.
load_data_EmptyIsMissing(path, exists, file, lib, readable) ==
    IF ~exists \/ file = <<>>
    THEN [raised |-> "SystemExit", code |-> 2,
          err |-> << <<"ERROR: input file", path, "not found">> >>, value |-> <<>>]
    ELSE IF ~readable
    THEN [raised |-> "OSError", code |-> 1, err |-> <<>>, value |-> <<>>]
    ELSE LET o == IF lib THEN ReadCsv(file) ELSE ParseRows(file, <<>>)
         IN  [raised |-> o.raised, code |-> 1, err |-> <<>>, value |-> o.value]

\* load_data(path): exists is os.path.exists(path), readable is FALSE when
\* opening or reading the existing file fails.  The result names the exception
\* that leaves load_data ("none": it returns value), the status given to
\* sys.exit and the message printed to the error stream before it.
load_data(path, exists, file, lib, readable) ==
    IF ~exists
    THEN [raised |-> "SystemExit", code |-> 2,
          err |-> << <<"ERROR: input file", path, "not found">> >>, value |-> <<>>]
    ELSE IF ~readable
    THEN [raised |-> "OSError", code |-> 1, err |-> <<>>, value |-> <<>>]
    ELSE LET o == IF lib THEN ReadCsv(file) ELSE ParseRows(file, <<>>)
         IN  [raised |-> o.raised, code |-> 1, err |-> <<>>, value |-> o.value]

----------------------------------------------------------------------------
(* generate_summary, basic Python grouping *)

\* total_revenue = 0.0, total_units = 0, by_artisan = {}, by_product = {}.
\* A dict is the sequence of its entries in insertion order.
EmptyAcc ==
    [total_revenue |-> 0, total_units |-> 0, by_artisan |-> <<>>, by_product |-> <<>>]

\* d.setdefault(k, {'units':0,'revenue':0.0}): a new key goes to the end.
Setdefault(d, k) ==
    IF \E i \in 1..Len(d) : d[i].key = k
    THEN d
    ELSE Append(d, [key |-> k, units |-> 0, revenue |-> 0])

\* d[k]['units'] += u; d[k]['revenue'] += rev
Accumulate(d, k, u, rev) ==
    [i \in 1..Len(d) |->
        IF d[i].key = k
        THEN [key |-> k, units |-> d[i].units + u, revenue |-> d[i].revenue + rev]
        ELSE d[i]]

\* The iteration with total_units counting the records instead of their units.
ManualStepCountsRows(acc, r) ==
    LET rev == r.units_sold * r.unit_price
    IN  [total_revenue |-> acc.total_revenue + rev,
         total_units |-> acc.total_units + 1,
         by_artisan |-> Accumulate(Setdefault(acc.by_artisan, r.artisan),
                                   r.artisan, r.units_sold, rev),
         by_product |-> Accumulate(Setdefault(acc.by_product, r.product),
                                   r.product, r.units_sold, rev)]

\* The iteration with the revenue of a record taken to be its unit price.
ManualStepPriceOnly(acc, r) ==
    LET rev == r.unit_price
    IN  [total_revenue |-> acc.total_revenue + rev,
         total_units |-> acc.total_units + r.units_sold,
         by_artisan |-> Accumulate(Setdefault(acc.by_artisan, r.artisan),
                                   r.artisan, r.units_sold, rev),
         by_product |-> Accumulate(Setdefault(acc.by_product, r.product),
                                   r.product, r.units_sold, rev)]

\* One iteration of "for r in df".
ManualStep(acc, r) ==
    LET rev == r.units_sold * r.unit_price
    IN  [total_revenue |-> acc.total_revenue + rev,
         total_units |-> acc.total_units + r.units_sold,
         by_artisan |-> Accumulate(Setdefault(acc.by_artisan, r.artisan),
                                   r.artisan, r.units_sold, rev),
         by_product |-> Accumulate(Setdefault(acc.by_product, r.product),
                                   r.product, r.units_sold, rev)]

RECURSIVE ManualLoop(_, _)
ManualLoop(acc, rows) ==
    IF rows = <<>> THEN acc ELSE ManualLoop(ManualStep(acc, Head(rows)), Tail(rows))

Reverse(s) == [i \in 1..Len(s) |-> s[Len(s) + 1 - i]]

\* One insertion of a stable ascending sort: x goes behind every element
\* whose revenue is not greater than its own.
InsertAsc(s, x) ==
    LET n == Cardinality({i \in 1..Len(s) : s[i].revenue <= x.revenue})
    IN  SubSeq(s, 1, n) \o <<x>> \o SubSeq(s, n + 1, Len(s))

RECURSIVE SortAsc(_, _)
SortAsc(done, todo) ==
    IF todo = <<>> THEN done ELSE SortAsc(InsertAsc(done, Head(todo)), Tail(todo))

\* sorted(items, key=revenue, reverse=True): the list is reversed, sorted
\* ascending by a stable sort and reversed again.
Sorted(items) == Reverse(SortAsc(<<>>, Reverse(items)))

\* The else branch of generate_summary.
GenerateManual(rows) ==
    LET acc == ManualLoop(EmptyAcc, rows)
    IN  [total_revenue |-> acc.total_revenue,
         total_units |-> acc.total_units,
         by_artisan |-> Sorted(acc.by_artisan),
         by_product |-> Sorted(acc.by_product),
         numeric |-> TRUE]

----------------------------------------------------------------------------
(* generate_summary, pandas grouping *)

\* Series.sum() of a numeric column; the sum of an empty column is 0.
RECURSIVE SeriesSum(_)
SeriesSum(col) == IF col = <<>> THEN 0 ELSE Head(col) + SeriesSum(Tail(col))

\* df['units_sold'] and df['units_sold'] * df['unit_price']
UnitsColumn(rows) == [i \in 1..Len(rows) |-> rows[i].units_sold]
RevenueColumn(rows) == [i \in 1..Len(rows) |-> rows[i].units_sold * rows[i].unit_price]

\* The keys of the model in ascending string order.
KeyOrder == <<"A", "B", "X", "Y">>

\* The rows of one group.
GroupRows(rows, field, k) == SelectSeq(rows, LAMBDA r : r[field] = k)

\* groupby(field).agg(units_sold=sum, revenue=sum): one row per key, in
\* ascending key order (sort=True); rows whose key is NaN belong to no group
\* (dropna=True).
GroupBy(rows, field) ==
    LET keys == SelectSeq(KeyOrder, LAMBDA k : \E i \in 1..Len(rows) : rows[i][field] = k)
    IN  [j \in 1..Len(keys) |->
            [key |-> keys[j],
             units |-> SeriesSum(UnitsColumn(GroupRows(rows, field, keys[j]))),
             revenue |-> SeriesSum(RevenueColumn(GroupRows(rows, field, keys[j])))]]

NonIncreasing(t) == \A i \in 1..Len(t) - 1 : t[i].revenue >= t[i + 1].revenue

\* sort_values('revenue', ascending=False) with the default kind='quicksort',
\* which is not a stable sort: the outcome is some arrangement of the rows
\* that is non-increasing by revenue; which one, among rows of equal revenue,
\* depends on the installed sorting routine.
SortValues(t) ==
    LET n == Len(t)
        perms == {p \in [1..n -> 1..n] : \A i, j \in 1..n : p[i] = p[j] => i = j}
    IN  {s \in {[i \in 1..n |-> t[p[i]]] : p \in perms} : NonIncreasing(s)}

\* The outcomes of the pandas branch of generate_summary on a numeric frame.
GeneratePandas(rows) ==
    { [total_revenue |-> SeriesSum(RevenueColumn(rows)),
       total_units |-> SeriesSum(UnitsColumn(rows)),
       by_artisan |-> a,
       by_product |-> p,
       numeric |-> TRUE] :
        a \in SortValues(GroupBy(rows, "artisan")),
        p \in SortValues(GroupBy(rows, "product")) }

\* What the pandas branch returns, if it returns, on a frame one of whose
\* numeric columns was read as strings: sums and products of strings, which
\* are strings.
StringSummary ==
    [total_revenue |-> 0, total_units |-> 0, by_artisan |-> <<>>, by_product |-> <<>>,
     numeric |-> FALSE]

----------------------------------------------------------------------------
(* print_and_save *)

\* f"{x:.2f}" of an integer-valued amount.
Fixed2(x) == [whole |-> x, fraction |-> "00"]

\* One " - <name>: units=<n>, revenue=INR <x>" line.
RowLine(row) == [name |-> row.key, units |-> row.units, revenue |-> Fixed2(row.revenue)]

\* report_text: the joined lines, without the timestamp of the first line.
ReportText(s) ==
    [total_units |-> s.total_units,
     total_revenue |-> Fixed2(s.total_revenue),
     by_artisan |-> [i \in 1..Len(s.by_artisan) |-> RowLine(s.by_artisan[i])],
     by_product |-> [i \in 1..Len(s.by_product) |-> RowLine(s.by_product[i])]]

\* print_and_save with the "Saved report to" line printed before the file is
\* opened and written.
print_and_save_SavedBeforeWrite(s, dir, file, out, mkdirOk, openOk, writeOk) ==
    IF ~dir /\ ~mkdirOk
    THEN [raised |-> "OSError", dirExists |-> dir, stdout |-> out, outfile |-> file]
    ELSE IF ~s.numeric
    THEN [raised |-> "ValueError", dirExists |-> TRUE, stdout |-> out, outfile |-> file]
    ELSE LET text == ReportText(s)
             echoed == Append(Append(out, [what |-> "report", text |-> text]),
                              [what |-> "saved", text |-> OUTFILE])
         IN  IF ~openOk
             THEN [raised |-> "OSError", dirExists |-> TRUE, stdout |-> echoed,
                   outfile |-> file]
             ELSE IF ~writeOk
             THEN [raised |-> "OSError", dirExists |-> TRUE, stdout |-> echoed,
                   outfile |-> [exists |-> TRUE, content |-> <<>>]]
             ELSE [raised |-> "none", dirExists |-> TRUE, stdout |-> echoed,
                   outfile |-> [exists |-> TRUE, content |-> <<text>>]]

\* print_and_save(...) run on summary s with the directory present or not
\* (dir), the report file as it is (file) and standard output as it is (out).
\* mkdirOk, openOk and writeOk say whether os.makedirs, open(OUTFILE, "w") and
\* f.write succeed.  The result names the exception that leaves the function
\* ("none": it returns) and the directory, standard output and report file
\* at that point.
print_and_save(s, dir, file, out, mkdirOk, openOk, writeOk) ==
    IF ~dir /\ ~mkdirOk
    THEN [raised |-> "OSError", dirExists |-> dir, stdout |-> out, outfile |-> file]
    ELSE IF ~s.numeric
    THEN \* f"{total_revenue:.2f}" of a string
         [raised |-> "ValueError", dirExists |-> TRUE, stdout |-> out, outfile |-> file]
    ELSE LET text == ReportText(s)
             echoed == Append(out, [what |-> "report", text |-> text])
         IN  IF ~openOk
             THEN [raised |-> "OSError", dirExists |-> TRUE, stdout |-> echoed,
                   outfile |-> file]
             ELSE IF ~writeOk
             THEN [raised |-> "OSError", dirExists |-> TRUE, stdout |-> echoed,
                   outfile |-> [exists |-> TRUE, content |-> <<>>]]
             ELSE [raised |-> "none", dirExists |-> TRUE,
                   stdout |-> Append(echoed, [what |-> "saved", text |-> OUTFILE]),
                   outfile |-> [exists |-> TRUE, content |-> <<text>>]]

----------------------------------------------------------------------------
(* main's exception handler *)

\* A handler that catches BaseException (or a bare "except:").
CaughtBaseException(kind) == TRUE

\* "except Exception" catches every exception type but SystemExit, which
\* derives from BaseException.
Caught(kind) == kind # "SystemExit"

\* The status the process ends with when an exception of type kind, carrying
\* exit status code, reaches main's try statement.
MainStatus(kind, code) == IF Caught(kind) THEN 1 ELSE code

\* The error stream after main's handler has seen the exception.
MainErr(err, kind) ==
    IF Caught(kind) THEN Append(err, <<"UNEXPECTED ERROR", kind>>) ELSE err

\* The run ends: an exception of type kind leaves main's try block.
Terminate(kind, code, err) ==
    /\ pc' = "exited"
    /\ raised' = kind
    /\ exits' = Append(exits, MainStatus(kind, code))
    /\ stderr' = MainErr(err, kind)

----------------------------------------------------------------------------
(* The run *)

Init ==
    /\ pd \in BOOLEAN
    /\ inputExists \in BOOLEAN
    /\ csv \in (IF inputExists THEN CsvFiles ELSE {<<>>})
    /\ dirExists \in BOOLEAN
    /\ outfile = [exists |-> FALSE, content |-> <<>>]
    /\ stdout = <<>>
    /\ stderr = <<>>
    /\ pc = "start"
    /\ df = <<>>
    /\ summary = <<>>
    /\ raised = "none"
    /\ exits = <<>>

\* The call of load_data with its error message printed to standard output
\* (print without file=sys.stderr).
LoadDataErrorToStdout ==
    /\ pc = "start"
    /\ \E readable \in BOOLEAN :
         LET o == load_data(INPUT, inputExists, csv, pd, readable)
         IN  IF o.raised = "none"
             THEN /\ df' = o.value
                  /\ pc' = "loaded"
                  /\ UNCHANGED <<raised, exits, stderr, stdout>>
             ELSE /\ Terminate(o.raised, o.code, stderr)
                  /\ stdout' = stdout \o [i \in 1..Len(o.err) |-> [what |-> "error", text |-> o.err[i]]]
                  /\ UNCHANGED df
    /\ UNCHANGED <<pd, inputExists, csv, dirExists, outfile, summary>>

\* df = load_data(INPUT)
LoadData ==
    /\ pc = "start"
    /\ \E readable \in BOOLEAN :
         LET o == load_data(INPUT, inputExists, csv, pd, readable)
         IN  IF o.raised = "none"
             THEN /\ df' = o.value
                  /\ pc' = "loaded"
                  /\ UNCHANGED <<raised, exits, stderr>>
             ELSE /\ Terminate(o.raised, o.code, stderr \o o.err)
                  /\ UNCHANGED df
    /\ UNCHANGED <<pd, inputExists, csv, dirExists, outfile, stdout, summary>>

\* total_revenue, total_units, by_artisan, by_product = generate_summary(df)
GenerateSummary ==
    /\ pc = "loaded"
    /\ LET d == df[1]
       IN  IF ~pd
           THEN /\ summary' = <<GenerateManual(d.rows)>>
                /\ pc' = "summarised"
                /\ UNCHANGED <<raised, exits, stderr>>
           ELSE IF d.numeric
           THEN /\ \E s \in GeneratePandas(d.rows) : summary' = <<s>>
                /\ pc' = "summarised"
                /\ UNCHANGED <<raised, exits, stderr>>
           ELSE \* a string times a float raises TypeError; a string times an
                \* integer is the string repeated, and the branch returns
                \/ /\ Terminate("TypeError", 1, stderr)
                   /\ UNCHANGED summary
                \/ /\ summary' = <<StringSummary>>
                   /\ pc' = "summarised"
                   /\ UNCHANGED <<raised, exits, stderr>>
    /\ UNCHANGED <<pd, inputExists, csv, dirExists, outfile, stdout, df>>

\* print_and_save(total_revenue, total_units, by_artisan, by_product); sys.exit(0)
PrintAndSave ==
    /\ pc = "summarised"
    /\ \E mkdirOk, openOk, writeOk \in BOOLEAN :
         LET o == print_and_save(summary[1], dirExists, outfile, stdout,
                                 mkdirOk, openOk, writeOk)
         IN  /\ dirExists' = o.dirExists
             /\ stdout' = o.stdout
             /\ outfile' = o.outfile
             /\ IF o.raised = "none"
                THEN Terminate("SystemExit", 0, stderr)
                ELSE Terminate(o.raised, 1, stderr)
    /\ UNCHANGED <<pd, inputExists, csv, df, summary>>

Next == LoadData \/ GenerateSummary \/ PrintAndSave

Spec == Init /\ [][Next]_vars

----------------------------------------------------------------------------
(* What the properties speak of *)

\* generate_summary has returned, on records whose numeric fields are numbers.
Summarised == summary # <<>> /\ summary[1].numeric

\* The records generate_summary was given, and their positions.
Records == df[1].rows
Positions == 1..Len(Records)

\* The positions of the records whose field has value k.
PositionsOf(field, k) == {i \in Positions : Records[i][field] = k}

\* Sum of f over the positions I.
RECURSIVE SumOver(_, _)
SumOver(I, f) ==
    IF I = {} THEN 0
    ELSE LET i == CHOOSE j \in I : TRUE IN f[i] + SumOver(I \ {i}, f)

InputUnits(I) == SumOver(I, [i \in Positions |-> Records[i].units_sold])
InputRevenue(I) ==
    SumOver(I, [i \in Positions |-> Records[i].units_sold * Records[i].unit_price])

\* Table t has exactly one row for each value of field among the records, and
\* the row holds the sums over the records with that value.
GroupsExactly(t, field) ==
    /\ \A i, j \in 1..Len(t) : t[i].key = t[j].key => i = j
    /\ {t[i].key : i \in 1..Len(t)} = {Records[i][field] : i \in Positions}
    /\ \A i \in 1..Len(t) :
         /\ t[i].units = InputUnits(PositionsOf(field, t[i].key))
         /\ t[i].revenue = InputRevenue(PositionsOf(field, t[i].key))

\* Sum of the units of the rows of table t.
TableUnits(t) == SumOver(1..Len(t), [i \in 1..Len(t) |-> t[i].units])

\* The position of the first record whose field has value k.
FirstSeen(field, k) ==
    CHOOSE i \in PositionsOf(field, k) : \A j \in PositionsOf(field, k) : i <= j

\* Table t is non-increasing by revenue and rows of equal revenue stand in the
\* order in which their keys first occur among the records.
RankedStably(t, field) ==
    \A i, j \in 1..Len(t) :
        i < j =>
          /\ t[i].revenue >= t[j].revenue
          /\ (t[i].revenue = t[j].revenue /\ PositionsOf(field, t[i].key) # {}
                /\ PositionsOf(field, t[j].key) # {})
               => FirstSeen(field, t[i].key) < FirstSeen(field, t[j].key)

HasBadRow == \E i \in 1..Len(csv) : ~Parses(csv[i])

SavedPrinted == \E i \in 1..Len(stdout) : stdout[i].what = "saved"

\* A report without per-artisan and per-product lines and with zero totals.
EmptyReport(r) ==
    /\ r.total_units = 0
    /\ r.total_revenue.whole = 0
    /\ r.by_artisan = <<>>
    /\ r.by_product = <<>>

\* The report file holds the text of the summary and the final line is out.
Completed ==
    /\ df # <<>>
    /\ summary # <<>>
    /\ outfile = [exists |-> TRUE, content |-> <<ReportText(summary[1])>>]
    /\ SavedPrinted

----------------------------------------------------------------------------
(* Properties *)

\* C1: for every record sequence given to generate_summary, the returned
\* total_units is the sum of units_sold over all the records.
C1_TotalUnits == Summarised => summary[1].total_units = InputUnits(Positions)

\* Two records of one artisan and one product, with units -1 and 2, summed.
C1_Witness ==
    /\ Summarised
    /\ ~pd
    /\ Len(Records) = 2
    /\ Records[1].artisan = Records[2].artisan
    /\ Records[1].product = Records[2].product
    /\ Records[1].units_sold = -1
    /\ Records[2].units_sold = 2
    /\ summary[1].total_units = 1

\* C2: for every record sequence given to generate_summary, the returned
\* total_revenue is the sum of units_sold * unit_price over all the records,
\* negative units and prices included.
C2_TotalRevenue == Summarised => summary[1].total_revenue = InputRevenue(Positions)

\* A record with negative units and one with a negative price.
C2_Witness ==
    /\ Summarised
    /\ ~pd
    /\ Len(Records) = 2
    /\ Records[1].units_sold = -1 /\ Records[1].unit_price = 1
    /\ Records[2].units_sold = 2 /\ Records[2].unit_price = -1
    /\ summary[1].total_revenue = -3

\* C3: by_artisan has exactly one row for each artisan occurring in the
\* records, holding the sums of units and of revenue over the records of that
\* artisan; likewise by_product for the products.
C3_OneRowPerKey ==
    Summarised =>
      /\ GroupsExactly(summary[1].by_artisan, "artisan")
      /\ GroupsExactly(summary[1].by_product, "product")

\* C4: the units of the rows of by_artisan sum to total_units, and so do the
\* units of the rows of by_product.
C4_TableUnitsSumToTotal ==
    Summarised =>
      /\ TableUnits(summary[1].by_artisan) = summary[1].total_units
      /\ TableUnits(summary[1].by_product) = summary[1].total_units

\* C5: by_artisan and by_product are non-increasing by revenue, and rows of
\* equal revenue stand in the order in which their keys first occurred in the
\* input, whichever grouping (manual or pandas) produced them.
C5_RankedStably ==
    Summarised =>
      /\ RankedStably(summary[1].by_artisan, "artisan")
      /\ RankedStably(summary[1].by_product, "product")

\* C6: an existing input file without data rows is no error: generate_summary
\* returns zero totals and two empty tables, and the run then writes a report
\* without per-artisan and per-product lines and exits with status 0 (the
\* only other end of such a run is a failure of the file system itself).
C6_EmptyInputIsNoError ==
    (inputExists /\ csv = <<>>) =>
      /\ summary # <<>> =>
           /\ summary[1].numeric
           /\ summary[1].total_revenue = 0
           /\ summary[1].total_units = 0
           /\ summary[1].by_artisan = <<>>
           /\ summary[1].by_product = <<>>
      /\ pc = "exited" =>
           \/ raised = "OSError" /\ exits = <<1>>
           \/ /\ exits = <<0>>
              /\ outfile.exists
              /\ Len(outfile.content) = 1
              /\ EmptyReport(outfile.content[1])
              /\ stdout[1].what = "report"
              /\ EmptyReport(stdout[1].text)

\* A run on an input file without data rows has exited with status 0.
C6_Witness ==
    /\ inputExists
    /\ csv = <<>>
    /\ pc = "exited"
    /\ exits = <<0>>
    /\ outfile.exists

\* The statements of main in program order.
Rank(p) ==
    CASE p = "start" -> 0
      [] p = "loaded" -> 1
      [] p = "summarised" -> 2
      [] p = "exited" -> 3

\* The exit status of a run that has ended agrees with what the run did.
ExitStatusAgrees ==
    /\ Len(exits) = (IF pc = "exited" THEN 1 ELSE 0)
    /\ pc = "loaded" => Len(df) = 1
    /\ pc = "summarised" => Len(df) = 1 /\ Len(summary) = 1
    /\ pc = "exited" =>
         /\ exits[1] \in {0, 1, 2}
         /\ exits[1] = 2 <=> ~inputExists
         /\ exits[1] = 2 => stderr = << <<"ERROR: input file", INPUT, "not found">> >>
         /\ exits[1] = 0 <=> Completed
         /\ exits[1] = 1 => /\ Len(stderr) = 1
                            /\ stderr[1] = <<"UNEXPECTED ERROR", raised>>
         /\ exits[1] # 1 => raised = "SystemExit"

\* C7: a run ends with exactly one exit status: 2 iff the input file does not
\* exist (with a message naming the file on the error stream), 0 iff load,
\* aggregation and report writing all completed, 1 for every other failure;
\* the exits requested by load_data (2) and at the end of main (0) are not
\* turned into 1 by main's handler.  Every step takes main to a later
\* statement, so a run has at most three steps and exits at most once.
C7_ExitStatus == []ExitStatusAgrees /\ [][Rank(pc') > Rank(pc)]_vars

\* The run on a missing input file has exited with status 2.
C7_Witness == pc = "exited" /\ ~inputExists /\ exits = <<2>>

\* C8: a data row with text that is no number in units_sold or unit_price
\* raises a parse error in load_data: no record sequence is returned, nothing
\* is aggregated or reported, and the run ends with status 1 and a message.
C8_ParseErrorSurfaced ==
    (inputExists /\ HasBadRow) =>
      /\ df = <<>>
      /\ summary = <<>>
      /\ stdout = <<>>
      /\ ~outfile.exists
      /\ pc = "exited" => exits = <<1>> /\ Len(stderr) = 1

\* C9: the "Saved report to" line and the exit with status 0 come only after
\* the report file holds exactly the text echoed to standard output; when
\* creating the directory or writing the file fails the run ends with status
\* 1 and the line is never printed.
C9_SavedOnlyAfterWrite ==
    /\ SavedPrinted =>
         /\ Len(stdout) = 2
         /\ stdout[1].what = "report"
         /\ stdout[2] = [what |-> "saved", text |-> OUTFILE]
         /\ outfile = [exists |-> TRUE, content |-> <<stdout[1].text>>]
    /\ exits = <<0>> => SavedPrinted
    /\ (pc = "exited" /\ summary # <<>> /\ raised = "OSError") =>
         /\ exits = <<1>>
         /\ ~SavedPrinted

\* The report of two artisans was echoed and written, and the line printed.
C9_Witness ==
    /\ pc = "exited"
    /\ SavedPrinted
    /\ exits = <<0>>
    /\ Len(summary[1].by_artisan) = 2
    /\ outfile.content = <<stdout[1].text>>

\* C10: when load_data fails (the file is missing, or a row does not parse),
\* the output directory, the report file and standard output are left as they
\* were, and generate_summary and print_and_save are not entered.
C10_LoadFailureLeavesOutput ==
    [][(pc = "start" /\ pc' = "exited") =>
          /\ dirExists' = dirExists
          /\ outfile' = outfile
          /\ ~outfile'.exists
          /\ stdout' = <<>>
          /\ df' = <<>>
          /\ summary' = <<>>]_vars

\* The fallback loader failed on the second of two rows; no directory exists.
C10_Witness ==
    /\ pc = "exited"
    /\ raised = "ValueError"
    /\ df = <<>>
    /\ Len(csv) = 2
    /\ Parses(csv[1])
    /\ ~dirExists
    /\ stdout = <<>>

====
